---- MODULE Spec2Model ----
(***************************************************************************)
(* Model of the per-node consensus engine of the petroleum supply-chain    *)
(* blockchain: network/node.py (Node), core/mempool.py (Mempool),          *)
(* mining/pow_miner.py (Miner), core/block.py (Block), core/merkle.py and  *)
(* core/transaction.py.                                                    *)
(*                                                                         *)
(* Digests are modelled as an ideal hash: the digest of a string s is the  *)
(* string "H(" s ")", so that equal inputs give equal digests and          *)
(* different inputs different ones.  A signature made with secret key k    *)
(* over message m is the pair (m, k); the public key of k is k itself.     *)
(***************************************************************************)
EXTENDS Integers, Sequences, FiniteSets, TLC

(***************************************************************************)
(* Bounds and program constants                                            *)
(***************************************************************************)
\* The nodes that run the code.
Nodes == {1, 2}

\* The address of a peer outside the model (an entry of Node.peers).
EnvPeer == 0

\* Number of transactions pulled from the mempool per block (node.py).
TX_PER_BLOCK == 5

\* Mempool capacity (Mempool.__init__ max_size, a constructor parameter).
max_size == 2

\* Capacity of a Mempool exercised on its own, and the largest n passed to
\* its take(n).
PoolCap == 3
MaxTake == 3

\* Longest txid list passed to merkle_root and merkle_proof on their own.
MaxLeaves == 3

\* Local transactions a node's generator produces in one run.
MaxLocalTx == 1

\* Reading of the wall clock (time.time()) during the modelled window,
\* in seconds.
Now == 10000

None == "None"

(***************************************************************************)
(* Digests, Merkle root (core/merkle.py)                                   *)
(***************************************************************************)
sha256(s) == "H(" \o s \o ")"

hash_pair(a, b) == sha256(a \o b)

\* A pairing that carries the last element of an odd level up unhashed.
next_level_carry(level) ==
    [k \in 1..((Len(level) + 1) \div 2) |->
        IF 2 * k <= Len(level)
        THEN hash_pair(level[2 * k - 1], level[2 * k])
        ELSE level[2 * k - 1]]

next_level(level) ==
    [k \in 1..((Len(level) + 1) \div 2) |->
        LET left  == level[2 * k - 1]
            right == IF 2 * k <= Len(level) THEN level[2 * k] ELSE left
        IN  hash_pair(left, right)]

RECURSIVE merkle_reduce(_)
merkle_reduce(level) ==
    IF Len(level) > 1 THEN merkle_reduce(next_level(level)) ELSE level[1]

merkle_root(txids) ==
    IF txids = <<>> THEN None ELSE merkle_reduce(txids)

\* A sibling choice that pairs an odd position with itself.
pair_index_self(level, index) ==
    IF index % 2 = 0
    THEN (IF index + 1 < Len(level) THEN index + 1 ELSE index)
    ELSE index

\* merkle_proof: the position (counted from 0) of the sibling of index ...
pair_index(level, index) ==
    IF index % 2 = 0
    THEN (IF index + 1 < Len(level) THEN index + 1 ELSE index)
    ELSE index - 1

\* ... and the loop that collects one sibling per level.
RECURSIVE proof_walk(_, _)
proof_walk(level, index) ==
    IF Len(level) > 1
    THEN <<level[pair_index(level, index) + 1]>>
         \o proof_walk(next_level(level), index \div 2)
    ELSE <<>>

merkle_proof(txids, index) == proof_walk(txids, index)

(***************************************************************************)
(* Miner rate (mining/pow_miner.py).  The quotients of Miner.lam are kept  *)
(* exact, as fractions num/den of positive integers.                       *)
(***************************************************************************)
rat(num, den) == [num |-> num, den |-> den]

rat_mul(a, b) == rat(a.num * b.num, a.den * b.den)

rat_div(a, b) == rat(a.num * b.den, a.den * b.num)

\* A rate that does not depend on the hash power.
lam_flat(hash_power, interarrival) ==
    rat_div(rat_div(rat(1, 1), rat(interarrival, 1)), rat(100, 1))

\* Miner.lam
lam(hash_power, interarrival) ==
    LET meanTk == rat_div(rat(1, 1), rat(interarrival, 1))
    IN  rat_div(rat_mul(rat(hash_power, 1), meanTk), rat(100, 1))

(***************************************************************************)
(* Transactions (core/transaction.py, core/crypto_identity.py)             *)
(***************************************************************************)
address_from_pk(pk) == "0x" \o pk

sign(msg, sk) == [msg |-> msg, sk |-> sk]

verify(msg, signature, pk) == signature.msg = msg /\ signature.sk = pk

tx_msg(tx) ==
    address_from_pk(tx.sender_pk) \o ":" \o tx.receiver_addr \o ":" \o tx.data

\* Transaction(sender_sk, sender_pk, receiver_addr, data) with a secret key.
Transaction(sender_sk, sender_pk, receiver_addr, data) ==
    LET msg == address_from_pk(sender_pk) \o ":" \o receiver_addr \o ":" \o data
    IN  [sender_pk     |-> sender_pk,
         receiver_addr |-> receiver_addr,
         data          |-> data,
         signature     |-> sign(msg, sender_sk),
         txid          |-> sha256(msg)]

tx_verify(tx) == verify(tx_msg(tx), tx.signature, tx.sender_pk)

\* The transaction rebuilt from its wire form (Block.from_dict, _handle_tx):
\* the message is recomputed from the fields, signature and txid are taken
\* from the wire.
tx_from_dict(td) ==
    [sender_pk     |-> td.sender_pk,
     receiver_addr |-> td.receiver_addr,
     data          |-> td.data,
     signature     |-> td.signature,
     txid          |-> td.txid]

(***************************************************************************)
(* Blocks (core/block.py)                                                  *)
(***************************************************************************)
compute_hash(prev_hash, merkle, timestamp) ==
    sha256(prev_hash \o merkle \o ToString(timestamp))

\* Block(prev_hash, transactions) constructed when the clock reads now.
Block(prev_hash, transactions, now) ==
    LET txids  == [i \in 1..Len(transactions) |-> transactions[i].txid]
        merkle == IF txids # <<>> THEN merkle_root(txids) ELSE None
    IN  [prev_hash    |-> prev_hash,
         transactions |-> transactions,
         timestamp    |-> now,
         merkle       |-> merkle,
         hash         |-> compute_hash(prev_hash, merkle, now)]

to_dict(block) ==
    [prev_hash    |-> block.prev_hash,
     timestamp    |-> block.timestamp,
     merkle       |-> block.merkle,
     hash         |-> block.hash,
     transactions |-> block.transactions]

\* Block.from_dict: a block is constructed from prev_hash and the rebuilt
\* transactions, then timestamp, hash and merkle are overwritten with the
\* values of the wire form.
from_dict(data, now) ==
    LET txs == [i \in 1..Len(data.transactions) |->
                    tx_from_dict(data.transactions[i])]
        b   == Block(data.prev_hash, txs, now)
    IN  [b EXCEPT !.timestamp = data.timestamp,
                  !.hash      = data.hash,
                  !.merkle    = data.merkle]

\* Blockchain.create_genesis: Block("0", []).  All nodes of one deployment
\* load the same blockchain_db.json and so share the genesis block.
Genesis == Block("0", <<>>, Now)


(***************************************************************************)
(* Mempool (core/mempool.py): the insertion-ordered dict txid -> tx is a   *)
(* sequence of transactions with pairwise different txids.                 *)
(***************************************************************************)
pool_txids(pool) == {pool[i].txid : i \in 1..Len(pool)}

\* An add that does not look at the capacity.
add_unbounded(pool, tx) ==
    IF tx.txid \in pool_txids(pool) THEN pool ELSE Append(pool, tx)

\* An add that refuses only a pool holding more than cap entries.
add_cap_late(pool, tx, cap) ==
    IF tx.txid \in pool_txids(pool) THEN pool
    ELSE IF Len(pool) > cap THEN pool
    ELSE Append(pool, tx)

\* Mempool.add on a pool constructed with max_size = cap.
add_cap(pool, tx, cap) ==
    IF tx.txid \in pool_txids(pool) THEN pool
    ELSE IF Len(pool) >= cap THEN pool
    ELSE Append(pool, tx)

\* Mempool.add: the pool afterwards ...
add_pool(pool, tx) == add_cap(pool, tx, max_size)

\* ... and the value add returns.
add_result(pool, tx) ==
    tx.txid \notin pool_txids(pool) /\ Len(pool) < max_size

\* A take that hands out the newest entries instead of the oldest.
take_newest(pool, n) ==
    SubSeq(pool, Len(pool) - (IF Len(pool) < n THEN Len(pool) ELSE n) + 1,
           Len(pool))

\* Mempool.take(n): the transactions returned ...
take(pool, n) == SubSeq(pool, 1, IF Len(pool) < n THEN Len(pool) ELSE n)

\* ... and the pool that is left.
take_rest(pool, n) ==
    SubSeq(pool, (IF Len(pool) < n THEN Len(pool) ELSE n) + 1, Len(pool))

\* A remove that empties the pool as soon as one listed txid is present.
remove_clear(pool, txids) ==
    IF txids \cap pool_txids(pool) # {} THEN <<>> ELSE pool

\* Mempool.remove(txids)
remove(pool, txids) == SelectSeq(pool, LAMBDA tx : tx.txid \notin txids)

\* Reinsertion of the drafted transactions after an abort, one add each.
RECURSIVE add_all(_, _)
add_all(pool, drafted) ==
    IF drafted = <<>> THEN pool
    ELSE add_all(add_pool(pool, Head(drafted)), Tail(drafted))

\* The txids for which those adds returned True.
RECURSIVE add_all_ok(_, _)
add_all_ok(pool, drafted) ==
    IF drafted = <<>> THEN {}
    ELSE (IF add_result(pool, Head(drafted)) THEN {Head(drafted).txid} ELSE {})
         \cup add_all_ok(add_pool(pool, Head(drafted)), Tail(drafted))

(***************************************************************************)
(* Node helpers (network/node.py)                                          *)
(***************************************************************************)
\* An index that is left as it is.
index_keep(idx, block) == idx

\* block_index[block.hash] = block
index_put(idx, block) == (block.hash :> block) @@ idx

\* Node._candidate_chain_length
RECURSIVE index_walk(_, _)
index_walk(idx, ph) ==
    IF ph \in DOMAIN idx THEN 1 + index_walk(idx, idx[ph].prev_hash) ELSE 0

_candidate_chain_length(idx, tip_block) == 1 + index_walk(idx, tip_block.prev_hash)

\* Node._build_fork_chain
RECURSIVE fork_walk(_, _, _)
fork_walk(idx, acc, ph) ==
    IF ph \in DOMAIN idx
    THEN LET parent == idx[ph]
         IN  IF parent.prev_hash = "0"
             THEN <<parent>> \o acc
             ELSE fork_walk(idx, <<parent>> \o acc, parent.prev_hash)
    ELSE acc

_build_fork_chain(idx, tip) == fork_walk(idx, <<tip>>, tip.prev_hash)

\* A queue from which nothing is removed.
queue_keep(queue, block) == queue

\* list.remove(block) guarded by "block in list": the first equal entry goes.
RECURSIVE queue_remove(_, _)
queue_remove(queue, block) ==
    IF queue = <<>> THEN <<>>
    ELSE IF Head(queue) = block THEN Tail(queue)
    ELSE <<Head(queue)>> \o queue_remove(Tail(queue), block)

Last(s) == s[Len(s)]

\* process_pending_queue, first branch: the block extends the active tip.
extends_tip(own, block) == block.prev_hash = Last(own).hash

\* A fork test that is content with a fork as long as the active chain.
fork_not_shorter(own, idx, block) ==
    /\ block.prev_hash \in DOMAIN idx
    /\ Len(_build_fork_chain(idx, block)) >= Len(own)

\* process_pending_queue, second branch: the parent is indexed and the
\* reconstructed chain is longer than the active one.
longer_fork(own, idx, block) ==
    /\ block.prev_hash \in DOMAIN idx
    /\ Len(_build_fork_chain(idx, block)) > Len(own)

\* abs(block.timestamp - time.time()) > 3600 rejects the block.
abs(x) == IF x < 0 THEN -x ELSE x

\* A timestamp check whose window is ten hours instead of one.
timestamp_ok_wide(block, now) == ~(abs(block.timestamp - now) > 36000)

\* A timestamp check that also turns away a skew of exactly one hour.
timestamp_ok_strict(block, now) == ~(abs(block.timestamp - now) >= 3600)

timestamp_ok(block, now) == ~(abs(block.timestamp - now) > 3600)

all_tx_verify(block) ==
    \A i \in 1..Len(block.transactions) : tx_verify(block.transactions[i])


(***************************************************************************)
(* Transactions, blocks and messages of the environment                    *)
(***************************************************************************)
\* The key pair of node n's mempool (Mempool._sk, Mempool._pk).
node_key(n) == "k" \o ToString(n)

\* The k-th transaction node n's generator produces (generate_local_tx).
local_tx(n, k) ==
    Transaction(node_key(n), node_key(n), "0xr",
                "d" \o ToString(n) \o ToString(k))

\* Transactions signed by peers outside the model.
T1 == Transaction("k0", "k0", "0xr", "e1")
T2 == Transaction("k0", "k0", "0xr", "e2")
T3 == Transaction("k0", "k0", "0xr", "e3")
T4 == Transaction("k0", "k0", "0xr", "e4")
T5 == Transaction("k0", "k0", "0xr", "e5")

\* T1 with its signature replaced by one over the same message under
\* another key pair.
TForged == [T1 EXCEPT !.signature = sign(tx_msg(T1), "k9")]

\* Two branches from genesis, mined by peers.
A1 == Block(Genesis.hash, <<T1>>, Now)
A2 == Block(A1.hash, <<T2>>, Now)
B1 == Block(Genesis.hash, <<T3>>, Now)
B2 == Block(B1.hash, <<T4>>, Now)
B3 == Block(B2.hash, <<T5>>, Now)

\* A block two hours old and a block with a forged transaction.
StaleTs == Block(Genesis.hash, <<T2>>, Now - 7200)
BadSig == Block(Genesis.hash, <<TForged>>, Now)

\* Gossip envelopes (broadcast_tx, broadcast_block); ip names the origin.
tx_message(id, origin, tx) ==
    [id |-> id, type |-> "TX", ip |-> origin, data |-> tx]

block_message(id, origin, block) ==
    [id |-> id, type |-> "BLOCK", ip |-> origin, data |-> to_dict(block)]

chain_message(id, origin, blocks) ==
    [id |-> id, type |-> "CHAIN_RESPONSE", ip |-> origin,
     data |-> [chain |-> [i \in 1..Len(blocks) |-> to_dict(blocks[i])]]]

\* A message on its way to node "to" over connection "conn".  passed tells
\* whether the handler thread of the connection has already found the
\* message id absent from seen_messages and has not yet added it.
packet(to, conn, message) ==
    [to |-> to, conn |-> conn, msg |-> message, passed |-> FALSE]

(***************************************************************************)
(* State                                                                   *)
(***************************************************************************)
VARIABLES
    peers,            \* Node.peers
    chain,            \* Node.blockchain.chain
    block_index,      \* Node.block_index
    pending_queue,    \* Node.pending_queue
    mempool,          \* Node.mempool._pool
    abort_event,      \* Node.miner.abort_event
    syncing,          \* Node._syncing
    seen_messages,    \* Node.seen_messages
    msg_counter,      \* Node.msg_counter
    pc,               \* position of the mining-loop thread
    txs,              \* mine_loop: the drafted transactions
    prev_hash,        \* mine_loop: the tip hash read after MINED
    queue_snapshot,   \* process_pending_queue: queue_snapshot
    qi,               \* process_pending_queue: position in the snapshot
    processed,        \* process_pending_queue: processed
    fork,             \* process_pending_queue: fork
    net,              \* messages in flight
    gen_count,        \* transactions generated locally so far
    broadcasts,       \* blocks passed to broadcast_block, in order
    abort_calls,      \* number of calls of miner.abort()
    abort_in_round,   \* a handler called miner.abort() since the draft
    added,            \* txids for which mempool.add returned True
    call              \* the last call made on an object on its own

nodeVars == <<chain, block_index, pending_queue, mempool, abort_event,
              syncing, seen_messages, msg_counter, pc, txs, prev_hash,
              queue_snapshot, qi, processed, fork, gen_count, broadcasts,
              abort_calls, abort_in_round, added>>

vars == <<peers, net, nodeVars, call>>

\* No object has been called on its own.
NoCall == [op |-> None]

\* Node.__init__, Blockchain.__init__, Mempool.__init__, Miner.__init__
InitNode ==
    /\ chain          = [n \in Nodes |-> <<Genesis>>]
    /\ block_index    = [n \in Nodes |-> <<>>]
    /\ pending_queue  = [n \in Nodes |-> <<>>]
    /\ mempool        = [n \in Nodes |-> <<>>]
    /\ abort_event    = [n \in Nodes |-> FALSE]
    /\ syncing        = [n \in Nodes |-> TRUE]
    /\ seen_messages  = [n \in Nodes |-> {}]
    /\ msg_counter    = [n \in Nodes |-> 0]
    /\ pc             = [n \in Nodes |-> "sync"]
    /\ txs            = [n \in Nodes |-> <<>>]
    /\ prev_hash      = [n \in Nodes |-> None]
    /\ queue_snapshot = [n \in Nodes |-> <<>>]
    /\ qi             = [n \in Nodes |-> 0]
    /\ processed      = [n \in Nodes |-> FALSE]
    /\ fork           = [n \in Nodes |-> <<>>]
    /\ gen_count      = [n \in Nodes |-> 0]
    /\ broadcasts     = [n \in Nodes |-> <<>>]
    /\ abort_calls    = [n \in Nodes |-> 0]
    /\ abort_in_round = [n \in Nodes |-> FALSE]
    /\ added          = [n \in Nodes |-> {}]
    /\ call           = NoCall

\* _mining_active: set before the draft, cleared when mine() returns.
_mining_active(n) == pc[n] \in {"arm", "mining"}

\* Node.gossip: one connection per peer except the sender (a set, empty
\* for sender=None); peers outside the model are not followed.
gossip(n, message, sender) ==
    {packet(p, n, message) : p \in (peers[n] \ sender) \cap Nodes}


\* Node._handle_chain_response: the chain afterwards ...
RECURSIVE index_put_all(_, _)
index_put_all(idx, blocks) ==
    IF blocks = <<>> THEN idx
    ELSE index_put_all(index_put(idx, Head(blocks)), Tail(blocks))

chain_from_dicts(dicts) == [i \in 1..Len(dicts) |-> from_dict(dicts[i], Now)]

\* A response that is adopted whatever its length.
response_chain_any(own, new_chain) == new_chain

response_chain(own, new_chain) ==
    IF Len(new_chain) > Len(own) THEN new_chain ELSE own

\* ... and the block index.
response_index(own, idx, new_chain) ==
    IF Len(new_chain) > Len(own) THEN index_put_all(idx, new_chain) ELSE idx

(***************************************************************************)
(* Start-up: Node.start, Node.request_chain_sync                           *)
(***************************************************************************)
\* Chains a peer outside the model may answer a CHAIN_REQUEST with.
EnvChains == {<<>>, <<Genesis>>, <<Genesis, B1>>}

\* No peers, or the request fails or times out: only the flag is cleared.
SyncWithoutChain(n) ==
    /\ syncing[n]
    /\ syncing' = [syncing EXCEPT ![n] = FALSE]
    /\ UNCHANGED <<peers, call, fork,
                   net, chain, block_index, pending_queue, mempool,
                   abort_event, seen_messages, msg_counter, pc, txs,
                   prev_hash, queue_snapshot, qi, processed, gen_count,
                   broadcasts, abort_calls, abort_in_round, added>>

\* A peer answers with its chain (Node._send_chain of a peer in the model).
SyncFromPeer(n) ==
    /\ syncing[n]
    /\ \E p \in peers[n] :
       \E answer \in (IF p \in Nodes
                      THEN (IF syncing[p] THEN {} ELSE {chain[p]})
                      ELSE EnvChains) :
          LET new_chain ==
                chain_from_dicts([i \in 1..Len(answer) |-> to_dict(answer[i])])
          IN  /\ chain' = [chain EXCEPT ![n] = response_chain(@, new_chain)]
              /\ block_index' = [block_index EXCEPT ![n] =
                                    response_index(chain[n], @, new_chain)]
    /\ syncing' = [syncing EXCEPT ![n] = FALSE]
    /\ UNCHANGED <<peers, call, fork,
                   net, pending_queue, mempool,
                   abort_event, seen_messages, msg_counter, pc, txs,
                   prev_hash, queue_snapshot, qi, processed, gen_count,
                   broadcasts, abort_calls, abort_in_round, added>>

\* Mempool.generate_local_tx followed by Node.broadcast_tx (the seeding
\* and the periodic generator).
GenerateLocalTx(n) ==
    /\ gen_count[n] < MaxLocalTx
    /\ LET tx      == local_tx(n, gen_count[n] + 1)
           message == tx_message(<<n, msg_counter[n] + 1>>, n, tx)
       IN  /\ mempool' = [mempool EXCEPT ![n] = add_pool(@, tx)]
           /\ added' = [added EXCEPT ![n] =
                          IF add_result(mempool[n], tx)
                          THEN @ \cup {tx.txid} ELSE @]
           /\ msg_counter' = [msg_counter EXCEPT ![n] = @ + 1]
           /\ seen_messages' = [seen_messages EXCEPT ![n] = @ \cup {message.id}]
           /\ net' = net \cup gossip(n, message, {})
    /\ gen_count' = [gen_count EXCEPT ![n] = @ + 1]
    /\ UNCHANGED <<peers, call, fork,
                   chain, block_index, pending_queue, abort_event,
                   syncing, pc, txs, prev_hash, queue_snapshot, qi,
                   processed, broadcasts, abort_calls, abort_in_round>>

(***************************************************************************)
(* Inbound handlers: Node.handle_message, one thread per connection.  The  *)
(* server is started after request_chain_sync has returned.                *)
(***************************************************************************)
\* Gossip dedup, the test alone: "if msg_id in self.seen_messages" finds the
\* id absent; the thread has not yet reached seen_messages.add.  No lock
\* joins the two statements.  The separation can be observed only by a
\* second thread handling the same id, so the step is taken when a second
\* connection carrying that id is open; otherwise test, add and
\* processing are one step (HandleTx, HandleBlock, HandleChainResponse).
DedupTest(n) ==
    \E e \in net :
        /\ e.to = n /\ ~syncing[n]
        /\ ~e.passed
        /\ e.msg.id \notin seen_messages[n]
        /\ \E f \in net \ {e} : f.to = n /\ f.msg.id = e.msg.id
        /\ net' = (net \ {e}) \cup {[e EXCEPT !.passed = TRUE]}
        /\ UNCHANGED <<peers, call, nodeVars>>

\* The handler thread of packet e is past the dedup test.
dedup_passed(n, e) == e.passed \/ e.msg.id \notin seen_messages[n]

\* Gossip dedup: a message whose id was seen is dropped.
HandleSeen(n) ==
    \E e \in net :
        /\ e.to = n /\ ~syncing[n]
        /\ ~e.passed
        /\ e.msg.id \in seen_messages[n]
        /\ net' = net \ {e}
        /\ UNCHANGED <<peers, call, nodeVars>>

\* TX: Node._handle_tx, then re-gossip.
HandleTx(n) ==
    \E e \in net :
        /\ e.to = n /\ ~syncing[n]
        /\ e.msg.type = "TX"
        /\ dedup_passed(n, e)
        /\ seen_messages' = [seen_messages EXCEPT ![n] = @ \cup {e.msg.id}]
        /\ LET tx == tx_from_dict(e.msg.data)
           IN  IF tx_verify(tx)
               THEN /\ mempool' = [mempool EXCEPT ![n] = add_pool(@, tx)]
                    /\ added' = [added EXCEPT ![n] =
                                   IF add_result(mempool[n], tx)
                                   THEN @ \cup {tx.txid} ELSE @]
               ELSE UNCHANGED <<mempool, added>>
        /\ net' = (net \ {e}) \cup gossip(n, e.msg, {e.msg.ip})
        /\ UNCHANGED <<peers, call, fork,
                   chain, block_index, pending_queue, abort_event,
                       syncing, msg_counter, pc, txs, prev_hash,
                       queue_snapshot, qi, processed, gen_count, broadcasts,
                       abort_calls, abort_in_round>>

\* BLOCK: Node._handle_block, then re-gossip.
HandleBlock(n) ==
    \E e \in net :
        /\ e.to = n /\ ~syncing[n]
        /\ e.msg.type = "BLOCK"
        /\ dedup_passed(n, e)
        /\ seen_messages' = [seen_messages EXCEPT ![n] = @ \cup {e.msg.id}]
        /\ LET block == from_dict(e.msg.data, Now)
               index == index_put(block_index[n], block)
           IN  IF timestamp_ok(block, Now) /\ all_tx_verify(block)
               THEN /\ block_index' = [block_index EXCEPT ![n] = index]
                    /\ pending_queue' = [pending_queue EXCEPT ![n] =
                                            Append(@, block)]
                    /\ IF _candidate_chain_length(index, block) > Len(chain[n])
                       THEN /\ abort_event' = [abort_event EXCEPT ![n] = TRUE]
                            /\ abort_calls' = [abort_calls EXCEPT ![n] = @ + 1]
                            /\ abort_in_round' =
                                  [abort_in_round EXCEPT ![n] =
                                      @ \/ pc[n] \in {"arm", "mining"}]
                       ELSE UNCHANGED <<abort_event, abort_calls,
                                        abort_in_round>>
               ELSE UNCHANGED <<block_index, pending_queue, abort_event,
                                abort_calls, abort_in_round>>
        /\ net' = (net \ {e}) \cup gossip(n, e.msg, {e.msg.ip})
        /\ UNCHANGED <<peers, call, fork,
                   chain, mempool, syncing, msg_counter, pc, txs,
                       prev_hash, queue_snapshot, qi, processed, gen_count,
                       broadcasts, added>>

\* CHAIN_RESPONSE arriving as a message: Node._handle_chain_response, no
\* re-gossip.
HandleChainResponse(n) ==
    \E e \in net :
        /\ e.to = n /\ ~syncing[n]
        /\ e.msg.type = "CHAIN_RESPONSE"
        /\ dedup_passed(n, e)
        /\ seen_messages' = [seen_messages EXCEPT ![n] = @ \cup {e.msg.id}]
        /\ LET new_chain == chain_from_dicts(e.msg.data.chain)
           IN  /\ chain' = [chain EXCEPT ![n] = response_chain(@, new_chain)]
               /\ block_index' = [block_index EXCEPT ![n] =
                                     response_index(chain[n], @, new_chain)]
        /\ net' = net \ {e}
        /\ UNCHANGED <<peers, call, fork,
                   pending_queue, mempool, abort_event, syncing,
                       msg_counter, pc, txs, prev_hash, queue_snapshot, qi,
                       processed, gen_count, broadcasts, abort_calls, abort_in_round, added>>


(***************************************************************************)
(* Mining loop thread: Node.mine_loop, Node.process_pending_queue,         *)
(* Miner.mine                                                              *)
(***************************************************************************)
\* A mining loop that starts without looking at the flag.
SyncSkip(n) ==
    /\ pc[n] = "sync"
    /\ pc' = [pc EXCEPT ![n] = "drain"]
    /\ UNCHANGED <<peers, call, net, chain, block_index, pending_queue, mempool,
                   abort_event, syncing, seen_messages, msg_counter, txs,
                   prev_hash, queue_snapshot, qi, processed, fork, gen_count,
                   broadcasts, abort_calls, abort_in_round, added>>

\* while self._syncing: sleep
SyncWait(n) ==
    /\ pc[n] = "sync" /\ ~syncing[n]
    /\ pc' = [pc EXCEPT ![n] = "drain"]
    /\ UNCHANGED <<peers, call, fork,
                   net, chain, block_index, pending_queue, mempool,
                   abort_event, syncing, seen_messages, msg_counter, txs,
                   prev_hash, queue_snapshot, qi, processed, gen_count,
                   broadcasts, abort_calls, abort_in_round, added>>

\* Step 1, queue not empty: process_pending_queue takes its snapshot.
PPQStart(n) ==
    /\ pc[n] = "drain" /\ Len(pending_queue[n]) > 0
    /\ queue_snapshot' = [queue_snapshot EXCEPT ![n] = pending_queue[n]]
    /\ qi' = [qi EXCEPT ![n] = 1]
    /\ processed' = [processed EXCEPT ![n] = FALSE]
    /\ pc' = [pc EXCEPT ![n] = "ppq"]
    /\ UNCHANGED <<peers, call, fork,
                   net, chain, block_index, pending_queue, mempool,
                   abort_event, syncing, seen_messages, msg_counter, txs,
                   prev_hash, gen_count, broadcasts, abort_calls, abort_in_round, added>>

\* One iteration of "for block in queue_snapshot": a block that extends
\* the tip is appended and broadcast; for a block whose parent is indexed
\* the fork is built and compared with the active chain.
PPQBlock(n) ==
    /\ pc[n] = "ppq" /\ qi[n] <= Len(queue_snapshot[n])
    /\ LET block   == queue_snapshot[n][qi[n]]
           direct  == extends_tip(chain[n], block)
           switch  == ~direct /\ longer_fork(chain[n], block_index[n], block)
           message == block_message(<<n, msg_counter[n] + 1>>, n, block)
       IN  IF direct
           THEN /\ chain' = [chain EXCEPT ![n] = Append(@, block)]
                /\ pending_queue' = [pending_queue EXCEPT ![n] =
                                        queue_remove(@, block)]
                /\ processed' = [processed EXCEPT ![n] = TRUE]
                /\ msg_counter' = [msg_counter EXCEPT ![n] = @ + 1]
                /\ seen_messages' = [seen_messages EXCEPT ![n] =
                                        @ \cup {message.id}]
                /\ net' = net \cup gossip(n, message, {})
                /\ broadcasts' = [broadcasts EXCEPT ![n] = Append(@, block.hash)]
                /\ qi' = [qi EXCEPT ![n] = @ + 1]
                /\ UNCHANGED <<pc, fork>>
           ELSE IF switch
           THEN /\ fork' = [fork EXCEPT ![n] =
                               _build_fork_chain(block_index[n], block)]
                /\ pc' = [pc EXCEPT ![n] = "switch"]
                /\ UNCHANGED <<chain, pending_queue, processed, msg_counter,
                               seen_messages, net, broadcasts, qi>>
           ELSE /\ qi' = [qi EXCEPT ![n] = @ + 1]
                /\ UNCHANGED <<chain, pending_queue, processed, msg_counter,
                               seen_messages, net, broadcasts, pc, fork>>
    /\ UNCHANGED <<peers, call, block_index, mempool, abort_event, syncing, txs,
                   prev_hash, queue_snapshot, gen_count, abort_calls, abort_in_round, added>>

\* The fork found longer becomes the active chain: self.blockchain.chain =
\* fork, then the block leaves the queue and is broadcast.
PPQSwitch(n) ==
    /\ pc[n] = "switch"
    /\ LET block   == queue_snapshot[n][qi[n]]
           message == block_message(<<n, msg_counter[n] + 1>>, n, block)
       IN  /\ chain' = [chain EXCEPT ![n] = fork[n]]
           /\ pending_queue' = [pending_queue EXCEPT ![n] =
                                   queue_remove(@, block)]
           /\ msg_counter' = [msg_counter EXCEPT ![n] = @ + 1]
           /\ seen_messages' = [seen_messages EXCEPT ![n] = @ \cup {message.id}]
           /\ net' = net \cup gossip(n, message, {})
           /\ broadcasts' = [broadcasts EXCEPT ![n] = Append(@, block.hash)]
    /\ processed' = [processed EXCEPT ![n] = TRUE]
    /\ fork' = [fork EXCEPT ![n] = <<>>]
    /\ qi' = [qi EXCEPT ![n] = @ + 1]
    /\ pc' = [pc EXCEPT ![n] = "ppq"]
    /\ UNCHANGED <<peers, call, block_index, mempool, abort_event, syncing, txs,
                   prev_hash, queue_snapshot, gen_count, abort_calls, abort_in_round, added>>

\* An end of process_pending_queue that signals the abort after any
\* progress, whether or not blocks remain queued.
PPQEndQueued(n) ==
    /\ pc[n] = "ppq" /\ qi[n] > Len(queue_snapshot[n])
    /\ IF processed[n]
       THEN /\ abort_event' = [abort_event EXCEPT ![n] = TRUE]
            /\ abort_calls' = [abort_calls EXCEPT ![n] = @ + 1]
       ELSE UNCHANGED <<abort_event, abort_calls>>
    /\ queue_snapshot' = [queue_snapshot EXCEPT ![n] = <<>>]
    /\ qi' = [qi EXCEPT ![n] = 0]
    /\ processed' = [processed EXCEPT ![n] = FALSE]
    /\ pc' = [pc EXCEPT ![n] = "drain"]
    /\ UNCHANGED <<peers, call, net, chain, block_index, pending_queue,
                   mempool, syncing, seen_messages, msg_counter, txs,
                   prev_hash, fork, gen_count, broadcasts,
                   abort_in_round, added>>

\* End of process_pending_queue: the abort signal, then back to the loop.
PPQEnd(n) ==
    /\ pc[n] = "ppq" /\ qi[n] > Len(queue_snapshot[n])
    /\ IF processed[n] /\ Len(pending_queue[n]) = 0
       THEN /\ abort_event' = [abort_event EXCEPT ![n] = TRUE]
            /\ abort_calls' = [abort_calls EXCEPT ![n] = @ + 1]
       ELSE UNCHANGED <<abort_event, abort_calls>>
    /\ queue_snapshot' = [queue_snapshot EXCEPT ![n] = <<>>]
    /\ qi' = [qi EXCEPT ![n] = 0]
    /\ processed' = [processed EXCEPT ![n] = FALSE]
    /\ pc' = [pc EXCEPT ![n] = "drain"]
    /\ UNCHANGED <<peers, call, fork,
                   net, chain, block_index, pending_queue, mempool,
                   syncing, seen_messages, msg_counter, txs, prev_hash,
                   gen_count, broadcasts, abort_in_round, added>>

\* Steps 2 and 3, queue empty and mempool not: draft from the mempool.
Draft(n) ==
    /\ pc[n] = "drain" /\ Len(pending_queue[n]) = 0
    /\ Len(mempool[n]) > 0
    /\ txs' = [txs EXCEPT ![n] = take(mempool[n], TX_PER_BLOCK)]
    /\ mempool' = [mempool EXCEPT ![n] = take_rest(@, TX_PER_BLOCK)]
    /\ pc' = [pc EXCEPT ![n] = "arm"]
    /\ UNCHANGED <<peers, call, fork,
                   net, chain, block_index, pending_queue, abort_event,
                   syncing, seen_messages, msg_counter, prev_hash,
                   queue_snapshot, qi, processed, gen_count, broadcasts,
                   abort_calls, abort_in_round, added>>

\* A round that starts without clearing the abort signal.
ArmUncleared(n) ==
    /\ pc[n] = "arm"
    /\ pc' = [pc EXCEPT ![n] = "mining"]
    /\ UNCHANGED <<peers, call, net, chain, block_index, pending_queue, mempool,
                   abort_event, syncing, seen_messages, msg_counter, txs,
                   prev_hash, queue_snapshot, qi, processed, fork, gen_count,
                   broadcasts, abort_calls, abort_in_round, added>>

\* Step 4, Miner.mine begins: the abort signal is cleared, tau is drawn.
Arm(n) ==
    /\ pc[n] = "arm"
    /\ abort_event' = [abort_event EXCEPT ![n] = FALSE]
    /\ pc' = [pc EXCEPT ![n] = "mining"]
    /\ UNCHANGED <<peers, call, fork,
                   net, chain, block_index, pending_queue, mempool,
                   syncing, seen_messages, msg_counter, txs, prev_hash,
                   queue_snapshot, qi, processed, gen_count, broadcasts,
                   abort_calls, abort_in_round, added>>

\* The deadline passes: mine() returns True.
TimerFires(n) ==
    /\ pc[n] = "mining"
    /\ pc' = [pc EXCEPT ![n] = "mined"]
    /\ abort_in_round' = [abort_in_round EXCEPT ![n] = FALSE]
    /\ UNCHANGED <<peers, call, fork,
                   net, chain, block_index, pending_queue, mempool,
                   abort_event, syncing, seen_messages, msg_counter, txs,
                   prev_hash, queue_snapshot, qi, processed, gen_count,
                   broadcasts, abort_calls, added>>

\* A timer that reports an abort nobody signalled.
AbortUnsignalled(n) ==
    /\ pc[n] = "mining"
    /\ pc' = [pc EXCEPT ![n] = "aborted"]
    /\ abort_in_round' = [abort_in_round EXCEPT ![n] = FALSE]
    /\ UNCHANGED <<peers, call, net, chain, block_index, pending_queue, mempool,
                   abort_event, syncing, seen_messages, msg_counter, txs,
                   prev_hash, queue_snapshot, qi, processed, fork, gen_count,
                   broadcasts, abort_calls, added>>

\* abort_event.wait sees the signal before the deadline: mine() returns False.
AbortObserved(n) ==
    /\ pc[n] = "mining" /\ abort_event[n]
    /\ pc' = [pc EXCEPT ![n] = "aborted"]
    /\ abort_in_round' = [abort_in_round EXCEPT ![n] = FALSE]
    /\ UNCHANGED <<peers, call, fork,
                   net, chain, block_index, pending_queue, mempool,
                   abort_event, syncing, seen_messages, msg_counter, txs,
                   prev_hash, queue_snapshot, qi, processed, gen_count,
                   broadcasts, abort_calls, added>>

\* Step 5: prev_hash = self.blockchain.chain[-1].hash
MinedReadTip(n) ==
    /\ pc[n] = "mined"
    /\ prev_hash' = [prev_hash EXCEPT ![n] = Last(chain[n]).hash]
    /\ pc' = [pc EXCEPT ![n] = "append"]
    /\ UNCHANGED <<peers, call, fork,
                   net, chain, block_index, pending_queue, mempool,
                   abort_event, syncing, seen_messages, msg_counter, txs,
                   queue_snapshot, qi, processed, gen_count, broadcasts,
                   abort_calls, abort_in_round, added>>

\* Step 5, rest: the block is built, appended, indexed, its txids purged
\* from the mempool, and broadcast.
MinedAppend(n) ==
    /\ pc[n] = "append"
    /\ LET new_block == Block(prev_hash[n], txs[n], Now)
           message   == block_message(<<n, msg_counter[n] + 1>>, n, new_block)
       IN  /\ chain' = [chain EXCEPT ![n] = Append(@, new_block)]
           /\ block_index' = [block_index EXCEPT ![n] = index_put(@, new_block)]
           /\ mempool' = [mempool EXCEPT ![n] =
                             remove(@, {txs[n][i].txid : i \in 1..Len(txs[n])})]
           /\ msg_counter' = [msg_counter EXCEPT ![n] = @ + 1]
           /\ seen_messages' = [seen_messages EXCEPT ![n] = @ \cup {message.id}]
           /\ net' = net \cup gossip(n, message, {})
           /\ broadcasts' = [broadcasts EXCEPT ![n] = Append(@, new_block.hash)]
    /\ txs' = [txs EXCEPT ![n] = <<>>]
    /\ prev_hash' = [prev_hash EXCEPT ![n] = None]
    /\ pc' = [pc EXCEPT ![n] = "drain"]
    /\ UNCHANGED <<peers, call, fork,
                   pending_queue, abort_event, syncing, queue_snapshot,
                   qi, processed, gen_count, abort_calls, abort_in_round, added>>

\* Step 6: the drafted transactions go back to the mempool.
AbortedReturn(n) ==
    /\ pc[n] = "aborted"
    /\ mempool' = [mempool EXCEPT ![n] = add_all(@, txs[n])]
    /\ added' = [added EXCEPT ![n] = @ \cup add_all_ok(mempool[n], txs[n])]
    /\ txs' = [txs EXCEPT ![n] = <<>>]
    /\ pc' = [pc EXCEPT ![n] = "drain"]
    /\ UNCHANGED <<peers, call, fork,
                   net, chain, block_index, pending_queue, abort_event,
                   syncing, seen_messages, msg_counter, prev_hash,
                   queue_snapshot, qi, processed, gen_count, broadcasts,
                   abort_calls, abort_in_round>>

(***************************************************************************)
(* Specifications                                                          *)
(***************************************************************************)
NodeStep(n) ==
    \/ SyncWithoutChain(n)
    \/ SyncFromPeer(n)
    \/ GenerateLocalTx(n)
    \/ DedupTest(n)
    \/ HandleSeen(n)
    \/ HandleTx(n)
    \/ HandleBlock(n)
    \/ HandleChainResponse(n)
    \/ SyncWait(n)
    \/ PPQStart(n)
    \/ PPQBlock(n)
    \/ PPQSwitch(n)
    \/ PPQEnd(n)
    \/ Draft(n)
    \/ Arm(n)
    \/ TimerFires(n)
    \/ AbortObserved(n)
    \/ MinedReadTip(n)
    \/ MinedAppend(n)
    \/ AbortedReturn(n)

\* Message ids of the peer outside the model.
env_id(k) == <<EnvPeer, k>>

MsgT1 == tx_message(env_id(1), EnvPeer, T1)
MsgA1 == block_message(env_id(2), EnvPeer, A1)
MsgA2 == block_message(env_id(3), EnvPeer, A2)
MsgB1 == block_message(env_id(4), EnvPeer, B1)
MsgB2 == block_message(env_id(5), EnvPeer, B2)
MsgB3 == block_message(env_id(6), EnvPeer, B3)
MsgStaleTs == block_message(env_id(7), EnvPeer, StaleTs)
MsgBadSig == block_message(env_id(8), EnvPeer, BadSig)
MsgChainB == chain_message(env_id(9), EnvPeer, <<Genesis, B1, B2>>)

\* What a peer that does not run this code may send: a block whose hash
\* field is not the digest of its header, and a chain holding a block with
\* a forged transaction.
BadHash == [Block(Genesis.hash, <<T2>>, Now) EXCEPT !.hash = sha256("other")]
MsgBadHash == block_message(env_id(10), EnvPeer, BadHash)
MsgChainForged == chain_message(env_id(11), EnvPeer, <<Genesis, BadSig>>)

\* Further gossip of the outside peer: T2, and T1 once more under a new
\* message id (a second origin relays the same transaction).
MsgT2 == tx_message(env_id(12), EnvPeer, T2)
MsgT1b == tx_message(env_id(13), EnvPeer, T1)

\* Node 1 alone, its only peer outside the model.
EnvPeers == [n \in Nodes |-> IF n = 1 THEN {EnvPeer} ELSE {}]

\* Spec: node 1 with every thread running; the messages of the outside
\* peer are in flight from the start, MsgA1 on two connections.
Init ==
    /\ InitNode
    /\ peers = EnvPeers
    /\ net = {packet(1, 0, m) : m \in {MsgT1, MsgA1, MsgB1, MsgB2, MsgChainB}}
             \cup {packet(1, 1, MsgA1)}

Next == \E n \in {1} : NodeStep(n)

Spec == Init /\ [][Next]_vars


\* SpecS3: the longest-chain scenario.  Node 1 has no transactions (its
\* mining loop only drains the queue); the outside peer sends A1, A2, B1,
\* B2, B3, which are handled in the order sent.
InOrderDelivery(n) ==
    \A e \in net \ net' :
        \A f \in net : f.to = n => f.msg.id[2] >= e.msg.id[2]

S3Deliver(n) == HandleBlock(n) /\ InOrderDelivery(n)

InitS3 ==
    /\ InitNode
    /\ peers = EnvPeers
    /\ net = {packet(1, 0, m) : m \in {MsgA1, MsgA2, MsgB1, MsgB2, MsgB3}}

NextS3 ==
    \E n \in {1} :
        \/ SyncWithoutChain(n)
        \/ SyncFromPeer(n)
        \/ SyncWait(n)
        \/ S3Deliver(n)
        \/ PPQStart(n)
        \/ PPQBlock(n)
        \/ PPQSwitch(n)
        \/ PPQEnd(n)

SpecS3 == InitS3 /\ [][NextS3]_vars

\* SpecReject: node 1 with every thread running, receiving a stale block
\* (on two connections) and a block with a forged transaction among valid
\* traffic.
InitReject ==
    /\ InitNode
    /\ peers = EnvPeers
    /\ net = {packet(1, 0, m) :
                m \in {MsgT1, MsgB1, MsgB2, MsgStaleTs, MsgBadSig,
                        MsgChainB}}
             \cup {packet(1, 1, MsgStaleTs)}

SpecReject == InitReject /\ [][Next]_vars

\* SpecFork: node 1 generates and mines its own transaction while the
\* outside peer's blocks B1, B2, B3 arrive.  No TX or CHAIN_RESPONSE message
\* and no repeated message id exists here, so those handlers are left out.
InitFork ==
    /\ InitNode
    /\ peers = EnvPeers
    /\ net = {packet(1, 0, m) : m \in {MsgB1, MsgB2, MsgB3}}

NextFork ==
    \E n \in {1} :
        \/ SyncWithoutChain(n)
        \/ SyncFromPeer(n)
        \/ GenerateLocalTx(n)
        \/ HandleBlock(n)
        \/ SyncWait(n)
        \/ PPQStart(n)
        \/ PPQBlock(n)
        \/ PPQSwitch(n)
        \/ PPQEnd(n)
        \/ Draft(n)
        \/ Arm(n)
        \/ TimerFires(n)
        \/ AbortObserved(n)
        \/ MinedReadTip(n)
        \/ MinedAppend(n)
        \/ AbortedReturn(n)

SpecFork == InitFork /\ [][NextFork]_vars

\* SpecMine: SpecFork with the mining-loop thread of node 1 kept running.
FairMine ==
    /\ WF_vars(SyncWait(1))
    /\ WF_vars(PPQStart(1))
    /\ WF_vars(PPQBlock(1))
    /\ WF_vars(PPQSwitch(1))
    /\ WF_vars(PPQEnd(1))
    /\ WF_vars(Draft(1))
    /\ WF_vars(Arm(1))
    /\ WF_vars(TimerFires(1) \/ AbortObserved(1))
    /\ WF_vars(MinedReadTip(1))
    /\ WF_vars(MinedAppend(1))
    /\ WF_vars(AbortedReturn(1))

SpecMine == InitFork /\ [][NextFork]_vars /\ FairMine

\* SpecSync: SpecMine with the start-up thread kept running as well:
\* request_chain_sync returns, its socket calls being bounded by
\* SYNC_TIMEOUT.
FairSync == WF_vars(SyncWithoutChain(1) \/ SyncFromPeer(1))

SpecSync == InitFork /\ [][NextFork]_vars /\ FairMine /\ FairSync

\* SpecNet: nodes 1 and 2 are each other's only peer; nothing is in flight
\* at the start.  No CHAIN_RESPONSE travels as a message and no message id
\* reaches a node twice in this configuration, so those two handlers are
\* left out.
NetPeers == [n \in Nodes |-> Nodes \ {n}]

InitNet ==
    /\ InitNode
    /\ peers = NetPeers
    /\ net = {}

NetStep(n) ==
    \/ SyncWithoutChain(n)
    \/ SyncFromPeer(n)
    \/ GenerateLocalTx(n)
    \/ HandleTx(n)
    \/ HandleBlock(n)
    \/ SyncWait(n)
    \/ PPQStart(n)
    \/ PPQBlock(n)
    \/ PPQSwitch(n)
    \/ PPQEnd(n)
    \/ Draft(n)
    \/ Arm(n)
    \/ TimerFires(n)
    \/ AbortObserved(n)
    \/ MinedReadTip(n)
    \/ MinedAppend(n)
    \/ AbortedReturn(n)

NextNet == \E n \in Nodes : NetStep(n)

\* Every thread of every node keeps running and every message in flight is
\* eventually handled.
FairNet ==
    \A n \in Nodes :
        /\ WF_vars(SyncWithoutChain(n) \/ SyncFromPeer(n))
        /\ WF_vars(GenerateLocalTx(n))
        /\ WF_vars(HandleTx(n))
        /\ WF_vars(HandleBlock(n))
        /\ WF_vars(SyncWait(n))
        /\ WF_vars(PPQStart(n))
        /\ WF_vars(PPQBlock(n))
        /\ WF_vars(PPQSwitch(n))
        /\ WF_vars(PPQEnd(n))
        /\ WF_vars(Draft(n))
        /\ WF_vars(Arm(n))
        /\ WF_vars(TimerFires(n) \/ AbortObserved(n))
        /\ WF_vars(MinedReadTip(n))
        /\ WF_vars(MinedAppend(n))
        /\ WF_vars(AbortedReturn(n))

SpecNet == InitNet /\ [][NextNet]_vars /\ FairNet

\* SpecWire: node 1 mines its own transaction while an outside peer that
\* does not run this code sends MsgBadHash and MsgChainForged next to the
\* blocks B1 and B2.  No TX message and no repeated message id exists here.
InitWire ==
    /\ InitNode
    /\ peers = EnvPeers
    /\ net = {packet(1, 0, m) :
                m \in {MsgBadHash, MsgChainForged, MsgB1, MsgB2}}

NextWire ==
    \E n \in {1} :
        \/ SyncWithoutChain(n)
        \/ SyncFromPeer(n)
        \/ GenerateLocalTx(n)
        \/ HandleBlock(n)
        \/ HandleChainResponse(n)
        \/ SyncWait(n)
        \/ PPQStart(n)
        \/ PPQBlock(n)
        \/ PPQSwitch(n)
        \/ PPQEnd(n)
        \/ Draft(n)
        \/ Arm(n)
        \/ TimerFires(n)
        \/ AbortObserved(n)
        \/ MinedReadTip(n)
        \/ MinedAppend(n)
        \/ AbortedReturn(n)

SpecWire == InitWire /\ [][NextWire]_vars

\* SpecAbort: node 1 generates, receives and mines transactions while the
\* outside peer's block B2 arrives.  No CHAIN_RESPONSE message, no
\* repeated message id and no longer fork exists here.
InitAbort ==
    /\ InitNode
    /\ peers = EnvPeers
    /\ net = {packet(1, 0, m) : m \in {MsgT1, MsgT1b, MsgT2, MsgB2}}

NextAbort ==
    \E n \in {1} :
        \/ SyncWithoutChain(n)
        \/ SyncFromPeer(n)
        \/ GenerateLocalTx(n)
        \/ HandleTx(n)
        \/ HandleBlock(n)
        \/ SyncWait(n)
        \/ PPQStart(n)
        \/ PPQBlock(n)
        \/ PPQEnd(n)
        \/ Draft(n)
        \/ Arm(n)
        \/ TimerFires(n)
        \/ AbortObserved(n)
        \/ MinedReadTip(n)
        \/ MinedAppend(n)
        \/ AbortedReturn(n)

SpecAbort == InitAbort /\ [][NextAbort]_vars

\* SpecRelay: node 1 has two peers, the outside peer and node 2; node 2 has
\* not started yet, so what node 1 gossips to it stays in flight.  The
\* outside peer sends a transaction with a forged signature, a block
\* holding it, a stale block and the blocks B1 and B2.  No CHAIN_RESPONSE
\* message, no repeated message id and no longer fork exists here.
MsgForged == tx_message(env_id(18), EnvPeer, TForged)

RelayPeers == [n \in Nodes |-> IF n = 1 THEN {EnvPeer, 2} ELSE {1}]

InitRelay ==
    /\ InitNode
    /\ peers = RelayPeers
    /\ net = {packet(1, 0, m) :
                m \in {MsgForged, MsgBadSig, MsgStaleTs, MsgB1, MsgB2}}

NextRelay ==
    \E n \in {1} :
        \/ SyncWithoutChain(n)
        \/ SyncFromPeer(n)
        \/ GenerateLocalTx(n)
        \/ HandleTx(n)
        \/ HandleBlock(n)
        \/ SyncWait(n)
        \/ PPQStart(n)
        \/ PPQBlock(n)
        \/ PPQEnd(n)
        \/ Draft(n)
        \/ Arm(n)
        \/ TimerFires(n)
        \/ AbortObserved(n)
        \/ MinedReadTip(n)
        \/ MinedAppend(n)
        \/ AbortedReturn(n)

SpecRelay == InitRelay /\ [][NextRelay]_vars

\* SpecClock: node 1 drains its queue while the outside peer sends blocks
\* stamped exactly one hour before and after the node's clock, and one
\* second beyond that on either side.  The node has no transactions; no
\* repeated message id and no longer fork exists here.
HourOld   == Block(Genesis.hash, <<T1>>, Now - 3600)
HourAhead == Block(Genesis.hash, <<T2>>, Now + 3600)
TooOld    == Block(Genesis.hash, <<T3>>, Now - 3601)
TooNew    == Block(Genesis.hash, <<T4>>, Now + 3601)

MsgHourOld   == block_message(env_id(14), EnvPeer, HourOld)
MsgHourAhead == block_message(env_id(15), EnvPeer, HourAhead)
MsgTooOld    == block_message(env_id(16), EnvPeer, TooOld)
MsgTooNew    == block_message(env_id(17), EnvPeer, TooNew)

InitClock ==
    /\ InitNode
    /\ peers = EnvPeers
    /\ net = {packet(1, 0, m) :
                m \in {MsgHourOld, MsgHourAhead, MsgTooOld, MsgTooNew, MsgA1}}

NextClock ==
    \E n \in {1} :
        \/ SyncWithoutChain(n)
        \/ SyncFromPeer(n)
        \/ HandleBlock(n)
        \/ SyncWait(n)
        \/ PPQStart(n)
        \/ PPQBlock(n)
        \/ PPQEnd(n)

SpecClock == InitClock /\ [][NextClock]_vars

(***************************************************************************)
(* Objects on their own                                                    *)
(***************************************************************************)
\* SpecPool: a Mempool constructed with max_size = PoolCap and called
\* directly (add, take, remove), as the unit tests do; no node thread runs.
\* The pool is that of node 1; call records the operation, its argument,
\* the pool before the call and the value returned.
PoolTxs == {T1, T2, T3, T4, T5}

PoolAdd(n) ==
    /\ \E tx \in PoolTxs :
          /\ mempool' = [mempool EXCEPT ![n] = add_cap(@, tx, PoolCap)]
          /\ call' = [op |-> "add", arg |-> tx, before |-> mempool[n],
                      ret |-> (tx.txid \notin pool_txids(mempool[n])
                               /\ Len(mempool[n]) < PoolCap)]
    /\ UNCHANGED <<peers, net, chain, block_index, pending_queue,
                   abort_event, syncing, seen_messages, msg_counter, pc, txs,
                   prev_hash, queue_snapshot, qi, processed, fork, gen_count,
                   broadcasts, abort_calls, abort_in_round, added>>

PoolTake(n) ==
    /\ \E k \in 0..MaxTake :
          /\ mempool' = [mempool EXCEPT ![n] = take_rest(@, k)]
          /\ call' = [op |-> "take", arg |-> k, before |-> mempool[n],
                      ret |-> take(mempool[n], k)]
    /\ UNCHANGED <<peers, net, chain, block_index, pending_queue,
                   abort_event, syncing, seen_messages, msg_counter, pc, txs,
                   prev_hash, queue_snapshot, qi, processed, fork, gen_count,
                   broadcasts, abort_calls, abort_in_round, added>>

PoolRemove(n) ==
    /\ \E txids \in SUBSET {tx.txid : tx \in PoolTxs} :
          /\ mempool' = [mempool EXCEPT ![n] = remove(@, txids)]
          /\ call' = [op |-> "remove", arg |-> txids, before |-> mempool[n],
                      ret |-> None]
    /\ UNCHANGED <<peers, net, chain, block_index, pending_queue,
                   abort_event, syncing, seen_messages, msg_counter, pc, txs,
                   prev_hash, queue_snapshot, qi, processed, fork, gen_count,
                   broadcasts, abort_calls, abort_in_round, added>>

InitPool ==
    /\ InitNode
    /\ peers = EnvPeers
    /\ net = {}

NextPool ==
    \E n \in {1} :
        \/ PoolAdd(n)
        \/ PoolTake(n)
        \/ PoolRemove(n)

SpecPool == InitPool /\ [][NextPool]_vars

\* Mempool.peek: a snapshot of the pool, which is left as it is.
PoolPeek(n) ==
    /\ call' = [op |-> "peek", arg |-> None, before |-> mempool[n],
                ret |-> mempool[n]]
    /\ UNCHANGED <<peers, net, nodeVars>>

\* SpecPoolOps: the four operations of the pool called in any order.  Each
\* runs wholly under the pool's lock, so calls from concurrent threads are
\* a sequence of whole operations.
NextPoolOps ==
    \E n \in {1} :
        \/ PoolAdd(n)
        \/ PoolTake(n)
        \/ PoolRemove(n)
        \/ PoolPeek(n)

SpecPoolOps == InitPool /\ [][NextPoolOps]_vars

\* SpecPure: merkle_root and Miner.lam called directly.  merkle_root gets
\* every list of at most MaxLeaves txids; a Miner is constructed with a
\* whole percentage of hash power (the constructor admits 0 < hash_power
\* <= 100) and one of three block intervals, and its lam is read.
LeafIds == {T1.txid, T2.txid, T3.txid}

LeafLists == UNION {[1..k -> LeafIds] : k \in 0..MaxLeaves}

HashPowers == {hp \in 1..100 : 0 < hp /\ hp <= 100}

Interarrivals == {ia \in {1, 15, 60} : ia > 0}

CallMerkleRoot ==
    /\ \E txids \in LeafLists :
          call' = [op |-> "merkle_root", arg |-> txids, after |-> txids,
                   ret |-> merkle_root(txids)]
    /\ UNCHANGED <<peers, net, nodeVars>>

\* merkle_proof(txids, index) for a non-empty list and a valid index
\* (counted from 0).
CallMerkleProof ==
    /\ \E txids \in LeafLists \ {<<>>} : \E index \in 0..(Len(txids) - 1) :
          call' = [op |-> "merkle_proof", arg |-> txids, index |-> index,
                   after |-> txids, ret |-> merkle_proof(txids, index)]
    /\ UNCHANGED <<peers, net, nodeVars>>

CallLam ==
    /\ \E hash_power \in HashPowers : \E interarrival \in Interarrivals :
          call' = [op |-> "lam", hash_power |-> hash_power,
                   interarrival |-> interarrival,
                   ret |-> lam(hash_power, interarrival)]
    /\ UNCHANGED <<peers, net, nodeVars>>

InitPure ==
    /\ InitNode
    /\ peers = EnvPeers
    /\ net = {}

NextPure ==
    \/ CallMerkleRoot
    \/ CallLam

SpecPure == InitPure /\ [][NextPure]_vars

\* SpecMerkle: merkle_root and merkle_proof called directly on every list
\* of at most MaxLeaves txids.
NextMerkle ==
    \/ CallMerkleRoot
    \/ CallMerkleProof

SpecMerkle == InitPure /\ [][NextMerkle]_vars

(***************************************************************************)
(* Properties                                                              *)
(***************************************************************************)
\* A further pass of process_pending_queue would apply no block.
NoProgress(n) ==
    /\ pc[n] = "drain"
    /\ \A i \in 1..Len(pending_queue[n]) :
          /\ ~extends_tip(chain[n], pending_queue[n][i])
          /\ ~longer_fork(chain[n], block_index[n], pending_queue[n][i])

\* C1: once A1, A2, B1, B2, B3 have been admitted in that order and
\* process_pending_queue makes no further progress, the active chain is
\* [G, B1, B2, B3].
C1_LongestChainAdopted ==
    \A n \in Nodes :
        ({env_id(k) : k \in 2..6} \subseteq seen_messages[n] /\ NoProgress(n))
            => chain[n] = <<Genesis, B1, B2, B3>>


\* The txids contained in the blocks of a chain.
chain_txids(blocks) ==
    UNION {{blocks[i].transactions[j].txid :
                j \in 1..Len(blocks[i].transactions)} : i \in 1..Len(blocks)}

seq_txids(transactions) ==
    {transactions[j].txid : j \in 1..Len(transactions)}

\* C2: chain[i].prev_hash == chain[i-1].hash for every i >= 1 of the active
\* chain, in every reachable state.
C2_ChainLinked ==
    \A n \in Nodes :
        \A i \in 2..Len(chain[n]) :
            chain[n][i].prev_hash = chain[n][i - 1].hash

\* C3: the active chain is never empty and its first block is the genesis
\* block (prev_hash "0", no transactions).
C3_GenesisFirst ==
    \A n \in Nodes :
        /\ Len(chain[n]) >= 1
        /\ chain[n][1].prev_hash = "0"
        /\ chain[n][1].transactions = <<>>

\* A mining round is in flight: transactions are drafted and neither mined
\* into a block nor returned yet.
RoundInFlight(n) == pc[n] \in {"arm", "mining", "mined", "append", "aborted"}

\* C4: whenever no mining round is in flight, every transaction for which
\* mempool.add returned True is in the mempool or in a block of the active
\* chain.
C4_NoTxLost ==
    \A n \in Nodes :
        ~RoundInFlight(n) =>
            \A t \in added[n] :
                \/ t \in pool_txids(mempool[n])
                \/ t \in chain_txids(chain[n])

\* C5: a transaction contained in a block of the active chain is not in the
\* mempool, is not drafted for a later block, and no txid occurs in two
\* blocks of the active chain.
C5_AppliedTxGone ==
    \A n \in Nodes :
        /\ chain_txids(chain[n]) \cap pool_txids(mempool[n]) = {}
        /\ chain_txids(chain[n]) \cap seq_txids(txs[n]) = {}
        /\ \A i, j \in 1..Len(chain[n]) :
              i < j => seq_txids(chain[n][i].transactions)
                         \cap seq_txids(chain[n][j].transactions) = {}

\* C7: at the instant miner.mine() arms a round (the mining loop is about
\* to call it), the pending queue is empty.
C7_ArmOnEmptyQueue ==
    \A n \in Nodes : pc[n] = "arm" => pending_queue[n] = <<>>

\* This step is the handling of packet e by node n: the thread of e, past
\* the dedup test, adds the id and processes the message.
HandledBy(n, e) ==
    /\ e \in net /\ e.to = n
    /\ e \notin net'
    /\ \/ e.passed
       \/ e.msg.id \notin seen_messages[n] /\ e.msg.id \in seen_messages'[n]

\* The number of blocks from block b back to genesis, following prev_hash
\* through the blocks in known (0 if genesis is not reached).
RECURSIVE back_len(_, _)
back_len(known, ph) ==
    IF ph = "0" THEN 0
    ELSE IF ph \notin DOMAIN known THEN -1
    ELSE LET r == back_len(known, known[ph].prev_hash)
         IN  IF r < 0 THEN -1 ELSE r + 1

length_to_genesis(known, b) ==
    LET r == back_len(known, b.prev_hash) IN IF r < 0 THEN 0 ELSE r + 1

\* C8: whenever _handle_block admits a block b whose chain back to genesis
\* is strictly longer than the active chain, it calls miner.abort().
C8_AbortOnLongerChain ==
    [][\A n \in Nodes : \A e \in net :
          (/\ HandledBy(n, e) /\ e.msg.type = "BLOCK"
           /\ Len(pending_queue'[n]) > Len(pending_queue[n])
           /\ length_to_genesis(index_put_all(block_index[n], chain[n]),
                                from_dict(e.msg.data, Now)) > Len(chain[n]))
          => abort_calls'[n] = abort_calls[n] + 1]_vars

\* C9: a received block whose prev_hash is neither the hash of the active
\* tip nor a key of the block index is not indexed and not queued.
C9_UnknownParentDropped ==
    [][\A n \in Nodes : \A e \in net :
          (/\ HandledBy(n, e) /\ e.msg.type = "BLOCK"
           /\ e.msg.data.prev_hash # Last(chain[n]).hash
           /\ e.msg.data.prev_hash \notin DOMAIN block_index[n])
          => /\ block_index'[n] = block_index[n]
             /\ pending_queue'[n] = pending_queue[n]]_vars


\* C10: a received block that fails the timestamp check or contains a
\* transaction whose signature does not verify leaves block_index,
\* pending_queue and the active chain as they were, and miner.abort() is
\* not called.
C10_RejectedBlockNoEffect ==
    [][\A n \in Nodes : \A e \in net :
          (/\ HandledBy(n, e) /\ e.msg.type = "BLOCK"
           /\ \/ abs(e.msg.data.timestamp - Now) > 3600
              \/ \E i \in 1..Len(e.msg.data.transactions) :
                    ~tx_verify(tx_from_dict(e.msg.data.transactions[i])))
          => /\ block_index'[n] = block_index[n]
             /\ pending_queue'[n] = pending_queue[n]
             /\ chain'[n] = chain[n]
             /\ abort_event'[n] = abort_event[n]
             /\ abort_calls'[n] = abort_calls[n]]_vars

\* Both rejected blocks have been handled by a node that holds other blocks.
C10_Witness ==
    /\ {MsgStaleTs.id, MsgBadSig.id} \subseteq seen_messages[1]
    /\ Len(pending_queue[1]) > 0
    /\ DOMAIN block_index[1] # {}
    /\ StaleTs.hash \notin DOMAIN block_index[1]
    /\ BadSig.hash \notin DOMAIN block_index[1]


\* C6: two nodes that start from the same genesis and gossip to each other
\* eventually have the same active-chain tip for good.  (In SpecNet only
\* finitely many transactions exist, so mining stops in every behaviour.)
C6_Convergence ==
    <>[](Last(chain[1]).hash = Last(chain[2]).hash)


\* C11: for every block b of a node's active chain, b.hash is the digest of
\* b.prev_hash || b.merkle || b.timestamp.
C11_HashIntegrity ==
    \A n \in Nodes : \A i \in 1..Len(chain[n]) :
        chain[n][i].hash =
            sha256(chain[n][i].prev_hash \o chain[n][i].merkle
                   \o ToString(chain[n][i].timestamp))

\* C12: every transaction in a block of a node's active chain verifies
\* under its stated sender public key.
C12_ChainTxVerify ==
    \A n \in Nodes : \A i \in 1..Len(chain[n]) :
        \A j \in 1..Len(chain[n][i].transactions) :
            LET t == chain[n][i].transactions[j]
            IN  verify(address_from_pk(t.sender_pk) \o ":" \o t.receiver_addr
                       \o ":" \o t.data, t.signature, t.sender_pk)


\* C13: a locally mined block is appended directly after the block it
\* names as parent, even if the active chain changed during the round.
C13_MinedAfterParent ==
    [][\A n \in Nodes :
          (pc[n] = "append" /\ pc'[n] = "drain")
          => /\ Len(chain'[n]) >= 2
             /\ chain'[n][Len(chain'[n])].prev_hash
                  = chain'[n][Len(chain'[n]) - 1].hash]_vars


\* C14: when a round returned MINED, the active chain grows by exactly one
\* block holding exactly the drafted transactions, the block is in
\* block_index, the drafted txids are not in the mempool afterwards, and
\* broadcast_block is called once, for that block.
C14_MinedBlockStored ==
    [][\A n \in Nodes :
          (pc[n] = "append" /\ pc'[n] = "drain")
          => LET new_block == chain'[n][Len(chain'[n])]
             IN  /\ Len(chain'[n]) = Len(chain[n]) + 1
                 /\ SubSeq(chain'[n], 1, Len(chain[n])) = chain[n]
                 /\ new_block.transactions = txs[n]
                 /\ new_block.hash \in DOMAIN block_index'[n]
                 /\ block_index'[n][new_block.hash] = new_block
                 /\ seq_txids(txs[n]) \cap pool_txids(mempool'[n]) = {}
                 /\ broadcasts'[n] = Append(broadcasts[n], new_block.hash)
                 /\ \A i \in 1..Len(broadcasts[n]) :
                       broadcasts[n][i] # new_block.hash]_vars

\* A block mined from the node's own transaction is the tip and was the
\* last block broadcast.
C14_Witness ==
    /\ pc[1] = "drain"
    /\ Len(chain[1]) >= 2
    /\ Last(chain[1]).transactions = <<local_tx(1, 1)>>
    /\ broadcasts[1] # <<>>
    /\ Last(broadcasts[1]) = Last(chain[1]).hash


\* C15: when a round returned ABORTED, every drafted transaction is back in
\* the mempool once the abort branch has run.
C15_AbortReturnsDrafted ==
    [][\A n \in Nodes :
          (pc[n] = "aborted" /\ pc'[n] = "drain")
          => seq_txids(txs[n]) \subseteq pool_txids(mempool'[n])]_vars


\* C16: the active chain changes only to a strictly longer chain; a fork or
\* a chain-sync response of equal or smaller length never replaces it.
C16_OnlyLongerReplaces ==
    [][\A n \in Nodes :
          chain'[n] # chain[n] => Len(chain'[n]) > Len(chain[n])]_vars


\* C17: while the syncing flag is true the mining loop has not left its
\* wait: nothing is drafted from the mempool and the miner is not armed.
C17_NoMiningWhileSyncing ==
    \A n \in Nodes : syncing[n] => (pc[n] = "sync" /\ txs[n] = <<>>)

\* The mempool is seeded while the node is still syncing and the loop waits.
C17_Witness ==
    syncing[1] /\ mempool[1] # <<>> /\ pc[1] = "sync"


\* C18: a round of mine() ends in exactly one of two ways: MINED, or
\* ABORTED, the latter only when abort() was signalled during the round;
\* and every round ends.
C18_TimerOutcomes ==
    /\ [][\A n \in Nodes :
             (pc[n] = "mining" /\ pc'[n] # "mining")
             => \/ pc'[n] = "mined"
                \/ pc'[n] = "aborted" /\ abort_event[n]]_vars
    /\ \A n \in {1} : (pc[n] = "mining") ~> (pc[n] \in {"mined", "aborted"})

\* A round has ended ABORTED after abort() was called.
C18_Witness ==
    pc[1] = "aborted" /\ abort_event[1] /\ abort_calls[1] > 0


\* C19: an abort() issued while no round is armed does not affect the next
\* round: mine() starts with the signal cleared, and a round in which
\* abort() is not called keeps the signal clear and does not end ABORTED.
C19_StaleAbortIgnored ==
    [][\A n \in Nodes :
          /\ (pc[n] = "arm" /\ pc'[n] = "mining") => ~abort_event'[n]
          /\ (pc[n] = "mining" /\ ~abort_event[n]
                /\ abort_calls'[n] = abort_calls[n])
             => (~abort_event'[n] /\ pc'[n] # "aborted")]_vars

\* The only abort() so far was the one process_pending_queue issued after
\* appending A1, before the round was armed; the round has returned MINED
\* with the signal clear.
C19_Witness ==
    /\ pc[1] = "mined"
    /\ ~abort_event[1]
    /\ abort_calls[1] = 1
    /\ chain[1] = <<Genesis, A1>>
    /\ seen_messages[1] \cap {MsgB1.id, MsgB2.id, MsgChainB.id} = {}


\* C20: Mempool.add(tx) appends tx and returns True exactly when tx.txid is
\* absent from the pool and the pool holds fewer than max_size entries;
\* otherwise it returns False and the pool is unchanged.  (The adds of
\* _handle_tx for a verified transaction and of generate_local_tx.)
C20_AddContract ==
    [][\A n \in Nodes :
          \A tx \in {tx_from_dict(e.msg.data) :
                        e \in {f \in net : /\ HandledBy(n, f)
                                           /\ f.msg.type = "TX"
                                           /\ tx_verify(tx_from_dict(f.msg.data))}}
                    \cup (IF gen_count'[n] # gen_count[n]
                          THEN {local_tx(n, gen_count[n] + 1)} ELSE {}) :
             IF /\ \A i \in 1..Len(mempool[n]) : mempool[n][i].txid # tx.txid
                /\ Len(mempool[n]) < max_size
             THEN /\ mempool'[n] = Append(mempool[n], tx)
                  /\ added'[n] = added[n] \cup {tx.txid}
             ELSE /\ mempool'[n] = mempool[n]
                  /\ added'[n] = added[n]]_vars

\* No round has run yet: T1 was added, T1 under its second message id was
\* refused as a duplicate, and T2 was refused because the pool was full.
C20_Witness ==
    /\ {MsgT1.id, MsgT1b.id, MsgT2.id} \subseteq seen_messages[1]
    /\ T1.txid \in added[1]
    /\ T2.txid \notin added[1]
    /\ pc[1] \in {"sync", "drain"}
    /\ broadcasts[1] = <<>> /\ abort_calls[1] = 0


\* C21: take(n) returns exactly the first min(n, size) transactions in
\* insertion order; the others stay in the pool in their order, and the
\* pool shrinks by the number returned.
C21_TakeContract ==
    call.op = "take" =>
        LET before == call.before
            m      == IF call.arg < Len(before) THEN call.arg ELSE Len(before)
        IN  /\ Len(call.ret) = m
            /\ \A i \in 1..m : call.ret[i] = before[i]
            /\ Len(mempool[1]) = Len(before) - Len(call.ret)
            /\ \A i \in 1..Len(mempool[1]) : mempool[1][i] = before[m + i]

\* take(1) on a pool of three: one returned, two left.
C21_Witness ==
    /\ call.op = "take" /\ call.arg = 1
    /\ Len(call.before) = 3
    /\ Len(call.ret) = 1 /\ Len(mempool[1]) = 2


\* The position of transaction tx in pool.
pool_pos(pool, tx) == CHOOSE i \in 1..Len(pool) : pool[i] = tx

\* C22: remove(txids) removes exactly the listed txids that are present,
\* does nothing for listed txids that are absent, and leaves the other
\* transactions in their order.
C22_RemoveContract ==
    call.op = "remove" =>
        LET before == call.before
            after  == mempool[1]
            kept   == {i \in 1..Len(before) : before[i].txid \notin call.arg}
        IN  /\ Len(after) = Cardinality(kept)
            /\ \A i \in kept : \E j \in 1..Len(after) : after[j] = before[i]
            /\ \A i, j \in 1..Len(after) :
                  i < j => pool_pos(before, after[i]) < pool_pos(before, after[j])

\* remove of the middle entry of three together with a txid that is not in
\* the pool: the first and the last entry are left.
C22_Witness ==
    /\ call.op = "remove"
    /\ Len(call.before) = 3
    /\ call.before[2].txid \in call.arg
    /\ \E t \in call.arg : t \notin pool_txids(call.before)
    /\ mempool[1] = <<call.before[1], call.before[3]>>


\* C23: with respect to the timestamp check, the inbound block handler
\* accepts a block exactly when |block.timestamp - now| <= 3600: a skew of
\* exactly 3600 is accepted, any larger skew in the past or in the future
\* is rejected.
C23_TimestampBoundary ==
    [][\A n \in Nodes : \A e \in net :
          (/\ HandledBy(n, e) /\ e.msg.type = "BLOCK"
           /\ \A i \in 1..Len(e.msg.data.transactions) :
                 tx_verify(tx_from_dict(e.msg.data.transactions[i])))
          => LET skew     == e.msg.data.timestamp - Now
                 accepted == /\ e.msg.data.hash \in DOMAIN block_index'[n]
                             /\ Len(pending_queue'[n]) = Len(pending_queue[n]) + 1
                             /\ Last(pending_queue'[n]).hash = e.msg.data.hash
                 rejected == /\ block_index'[n] = block_index[n]
                             /\ pending_queue'[n] = pending_queue[n]
             IN  IF -3600 <= skew /\ skew <= 3600
                 THEN accepted ELSE rejected]_vars

\* All four blocks have been handled: the two at exactly one hour were
\* admitted, the two one second beyond were not.
C23_Witness ==
    /\ {MsgHourOld.id, MsgHourAhead.id, MsgTooOld.id, MsgTooNew.id}
          \subseteq seen_messages[1]
    /\ {HourOld.hash, HourAhead.hash} \subseteq DOMAIN block_index[1]
    /\ TooOld.hash \notin DOMAIN block_index[1]
    /\ TooNew.hash \notin DOMAIN block_index[1]


\* C24: merkle_root over a single-element list [x] returns the pair-hash
\* of x with itself, hash_pair(x, x).
C24_SingleLeafRoot ==
    (call.op = "merkle_root" /\ Len(call.arg) = 1)
        => call.ret = sha256(call.arg[1] \o call.arg[1])


C26_AbortAtEnd ==
    [][\A n \in Nodes :
          /\ (pc[n] = "drain" /\ pc'[n] = "ppq") => ~processed'[n]
          /\ (pc[n] \in {"ppq", "switch"} /\ pc'[n] \in {"ppq", "switch"})
             => (processed'[n] <=>
                    (processed[n] \/ Len(broadcasts'[n]) > Len(broadcasts[n])))
          /\ (pc[n] = "ppq" /\ pc'[n] = "drain")
             => IF processed[n] /\ Len(pending_queue[n]) = 0
                THEN /\ abort_calls'[n] = abort_calls[n] + 1
                     /\ abort_event'[n]
                ELSE /\ abort_calls'[n] = abort_calls[n]
                     /\ abort_event'[n] = abort_event[n]]_vars

\* One pass has applied A1 and emptied the queue: the only abort() so far
\* is the one issued at the end of that pass (the handler does not signal
\* for A1, and no other block has been received).
C26_Witness ==
    /\ pc[1] = "drain"
    /\ chain[1] = <<Genesis, A1>>
    /\ broadcasts[1] = <<A1.hash>>
    /\ pending_queue[1] = <<>>
    /\ abort_calls[1] = 1 /\ abort_event[1]
    /\ seen_messages[1] \cap {MsgB1.id, MsgB2.id, MsgChainB.id} = {}


\* C27: when the pass of process_pending_queue reaches a pending block b
\* whose prev_hash is the hash of the active tip, it appends b to the active
\* chain (height +1, b the new tip), removes b from the pending queue,
\* broadcasts b, and goes on to the next entry of its snapshot; so blocks
\* queued in parent-to-child order are applied one after the other in one
\* pass.
C27_DirectExtension ==
    [][\A n \in Nodes :
          (/\ pc[n] = "ppq" /\ qi[n] <= Len(queue_snapshot[n])
           /\ (qi'[n] # qi[n] \/ pc'[n] # pc[n])
           /\ queue_snapshot[n][qi[n]].prev_hash = chain[n][Len(chain[n])].hash)
          => LET b == queue_snapshot[n][qi[n]]
             IN  /\ chain'[n] = Append(chain[n], b)
                 /\ \E k \in 1..Len(pending_queue[n]) :
                       /\ pending_queue[n][k] = b
                       /\ pending_queue'[n] =
                             SubSeq(pending_queue[n], 1, k - 1)
                             \o SubSeq(pending_queue[n], k + 1,
                                       Len(pending_queue[n]))
                 /\ broadcasts'[n] = Append(broadcasts[n], b.hash)
                 /\ pc'[n] = "ppq" /\ qi'[n] = qi[n] + 1]_vars

\* One pass over the snapshot [B1, B2] has applied both blocks.
C27_Witness ==
    /\ pc[1] = "ppq" /\ qi[1] = 3
    /\ queue_snapshot[1] = <<B1, B2>>
    /\ chain[1] = <<Genesis, B1, B2>>
    /\ pending_queue[1] = <<>>
    /\ broadcasts[1] = <<B1.hash, B2.hash>>
    /\ seen_messages[1] \cap {MsgA1.id, MsgChainB.id} = {}


\* C28: a pending block that neither extends the active tip nor has an
\* indexed parent whose indexed chain, with the block, is strictly longer
\* than the active chain is left untouched by the pass: the pending queue,
\* the active chain, the block index and the miner stay as they are, and
\* nothing is broadcast.
C28_OtherBlockUntouched ==
    [][\A n \in Nodes :
          (/\ pc[n] = "ppq" /\ qi[n] <= Len(queue_snapshot[n])
           /\ (qi'[n] # qi[n] \/ pc'[n] # pc[n])
           /\ LET b == queue_snapshot[n][qi[n]]
              IN  /\ b.prev_hash # chain[n][Len(chain[n])].hash
                  /\ \/ b.prev_hash \notin DOMAIN block_index[n]
                     \/ 1 + index_walk(block_index[n], b.prev_hash)
                          <= Len(chain[n]))
          => /\ pending_queue'[n] = pending_queue[n]
             /\ chain'[n] = chain[n]
             /\ block_index'[n] = block_index[n]
             /\ abort_event'[n] = abort_event[n]
             /\ abort_calls'[n] = abort_calls[n]
             /\ broadcasts'[n] = broadcasts[n]
             /\ processed'[n] = processed[n]
             /\ pc'[n] = "ppq" /\ qi'[n] = qi[n] + 1]_vars

\* A pass over [B1, B2] on the chain [G, A1] has ended: B1 has no indexed
\* parent, B2 closes an indexed chain of length 2, as long as the active
\* one; both are still queued in their places.
C28_Witness ==
    /\ pc[1] = "ppq" /\ qi[1] = 3
    /\ queue_snapshot[1] = <<B1, B2>>
    /\ pending_queue[1] = <<B1, B2>>
    /\ chain[1] = <<Genesis, A1>>
    /\ ~processed[1]


\* C29: a node runs the TX/BLOCK processing and the re-gossip for a message
\* identifier at most once, also when several handler threads receive the
\* identifier concurrently, and never for a message it broadcast itself:
\* no message is processed whose id is already in seen_messages.
C29_ProcessedOnce ==
    [][\A n \in Nodes : \A e \in net :
          (HandledBy(n, e) /\ e.msg.type \in {"TX", "BLOCK"})
          => e.msg.id \notin seen_messages[n]]_vars


\* C30: a gossiped transaction whose signature does not verify, and a
\* gossiped block that fails validation, is dropped silently: it is not
\* admitted to the mempool, the block index or the pending queue, and it is
\* not re-gossiped to the node's peers (no message is put in flight).
C30_InvalidDropped ==
    [][\A n \in Nodes : \A e \in net :
          (/\ HandledBy(n, e)
           /\ \/ /\ e.msg.type = "TX"
                 /\ ~tx_verify(tx_from_dict(e.msg.data))
              \/ /\ e.msg.type = "BLOCK"
                 /\ \/ abs(e.msg.data.timestamp - Now) > 3600
                    \/ \E i \in 1..Len(e.msg.data.transactions) :
                          ~tx_verify(tx_from_dict(e.msg.data.transactions[i])))
          => /\ mempool'[n] = mempool[n]
             /\ block_index'[n] = block_index[n]
             /\ pending_queue'[n] = pending_queue[n]
             /\ net' \subseteq net]_vars


\* C31: request_chain_sync replaces the active chain only by a received
\* chain that is strictly longer than the node's own; in every outcome the
\* syncing flag is cleared (and stays cleared), so the mining loop
\* eventually leaves its sync wait.
C31_InitialSync ==
    /\ [][\A n \in Nodes :
             /\ (syncing[n] /\ chain'[n] # chain[n])
                => (~syncing'[n] /\ Len(chain'[n]) > Len(chain[n]))
             /\ ~syncing[n] => ~syncing'[n]]_vars
    /\ \A n \in {1} : syncing[n] ~> ~syncing[n]
    /\ \A n \in {1} : (pc[n] = "sync") ~> (pc[n] # "sync")

\* The sync has adopted the peer's chain [G, B1] (no message has been
\* handled yet) and the mining loop has left its wait.
C31_Witness ==
    /\ ~syncing[1]
    /\ chain[1] = <<Genesis, B1>>
    /\ seen_messages[1] = {}
    /\ pc[1] = "drain"


\* C32: in every reachable state every block of the active chain (genesis
\* included) and every block of the pending queue is in block_index under
\* its hash, and no entry is ever removed from block_index.
C32_IndexComplete ==
    /\ [](\A n \in Nodes :
            /\ \A i \in 1..Len(chain[n]) :
                  /\ chain[n][i].hash \in DOMAIN block_index[n]
                  /\ block_index[n][chain[n][i].hash] = chain[n][i]
            /\ \A i \in 1..Len(pending_queue[n]) :
                  /\ pending_queue[n][i].hash \in DOMAIN block_index[n]
                  /\ block_index[n][pending_queue[n][i].hash]
                        = pending_queue[n][i])
    /\ [][\A n \in Nodes :
             DOMAIN block_index[n] \subseteq DOMAIN block_index'[n]]_vars


\* C33: once the mining loop is running, the active chain is changed only
\* by steps of the mining-loop thread (the mined-block append and the queue
\* processor); no step of an inbound handler thread appends to or replaces
\* the active chain.
C33_SingleWriter ==
    [][\A n \in Nodes :
          (pc[n] # "sync" /\ chain'[n] # chain[n])
          => /\ pc'[n] # pc[n] \/ qi'[n] # qi[n]
             /\ \A e \in net : ~HandledBy(n, e)]_vars


\* The reference Merkle root: pair adjacent elements left to right, the
\* last element of an odd level with itself, until one element remains.
RECURSIVE ref_pairs(_)
ref_pairs(level) ==
    IF level = <<>> THEN <<>>
    ELSE IF Len(level) = 1 THEN <<sha256(level[1] \o level[1])>>
    ELSE <<sha256(level[1] \o level[2])>> \o ref_pairs(Tail(Tail(level)))

RECURSIVE ref_root(_)
ref_root(level) ==
    IF Len(level) = 1 THEN level[1] ELSE ref_root(ref_pairs(level))

\* C34: merkle_root equals the reference definition for every list of at
\* most MaxLeaves txids: the null sentinel for the empty list, otherwise the
\* result of the repeated pairing; the input list is not modified.
C34_MerkleReference ==
    call.op = "merkle_root" =>
        /\ call.ret = (IF call.arg = <<>> THEN None ELSE ref_root(call.arg))
        /\ call.after = call.arg

\* The root of three different txids: the third is paired with itself.
C34_Witness ==
    /\ call.op = "merkle_root"
    /\ call.arg = <<T1.txid, T2.txid, T3.txid>>
    /\ call.ret = sha256(sha256(T1.txid \o T2.txid) \o sha256(T3.txid \o T3.txid))


\* The verifier: fold the leaf with the siblings, the sibling on the right
\* when the running index is even and on the left when it is odd.
RECURSIVE fold_proof(_, _, _)
fold_proof(h, proof, index) ==
    IF proof = <<>> THEN h
    ELSE fold_proof(IF index % 2 = 0 THEN sha256(h \o Head(proof))
                                      ELSE sha256(Head(proof) \o h),
                    Tail(proof), index \div 2)

\* The number of pairing levels above a list of n >= 1 leaves.
RECURSIVE ref_levels(_)
ref_levels(n) == IF n <= 1 THEN 0 ELSE 1 + ref_levels((n + 1) \div 2)

\* C35: for every non-empty list of txids and every valid index i, folding
\* the leaf txids[i] with the siblings of merkle_proof(txids, i) yields
\* merkle_root(txids); the proof has one sibling per level.
C35_ProofRoundTrip ==
    call.op = "merkle_proof" =>
        /\ fold_proof(call.arg[call.index + 1], call.ret, call.index)
              = merkle_root(call.arg)
        /\ Len(call.ret) = ref_levels(Len(call.arg))

\* The proof for the third of three different txids: the leaf itself, then
\* the hash of the first pair.
C35_Witness ==
    /\ call.op = "merkle_proof"
    /\ call.arg = <<T1.txid, T2.txid, T3.txid>>
    /\ call.index = 2
    /\ call.ret = <<T3.txid, sha256(T1.txid \o T2.txid)>>


\* C36: a non-empty pending queue is eventually drained by the mining loop
\* (only finitely many blocks arrive), and a node with a queued block and
\* a non-empty mempool eventually arms the miner.
C36_DrainTerminates ==
    /\ \A n \in {1} : (pending_queue[n] # <<>>) ~> (pending_queue[n] = <<>>)
    /\ \A n \in {1} :
          (pending_queue[n] # <<>> /\ mempool[n] # <<>>) ~> (pc[n] = "arm")


\* The hashes of the blocks of a sequence.
block_hashes(blocks) == {blocks[i].hash : i \in 1..Len(blocks)}

\* C37: a received block whose hash is in the active chain or in the
\* pending queue is not appended to the queue; the queue never holds two
\* entries with the same hash nor a block of the active chain.
C37_NoDuplicateQueued ==
    /\ [][\A n \in Nodes : \A e \in net :
             (/\ HandledBy(n, e) /\ e.msg.type = "BLOCK"
              /\ e.msg.data.hash \in block_hashes(chain[n])
                                      \cup block_hashes(pending_queue[n]))
             => pending_queue'[n] = pending_queue[n]]_vars
    /\ [](\A n \in Nodes :
             /\ \A i, j \in 1..Len(pending_queue[n]) :
                    pending_queue[n][i].hash = pending_queue[n][j].hash
                        => i = j
             /\ block_hashes(pending_queue[n]) \cap block_hashes(chain[n])
                    = {})


\* C38: a round during which a handler called miner.abort() after the
\* transactions were drafted (round about to be armed, or armed) does not
\* return MINED, unless the signal is still set at the return, which is the
\* deadline passing before abort_event.wait could observe it.
C38_NoLostAbort ==
    [][\A n \in Nodes :
          (pc[n] = "mining" /\ pc'[n] = "mined" /\ abort_in_round[n])
          => abort_event[n]]_vars


\* C39: the length of the active chain never decreases, and whenever the
\* chain changes it becomes strictly longer; a step that leaves the chain
\* as it is leaves its length.
C39_LengthMonotone ==
    [][\A n \in Nodes :
          /\ Len(chain'[n]) >= Len(chain[n])
          /\ (chain'[n] # chain[n]) <=> (Len(chain'[n]) > Len(chain[n]))]_vars


\* C40: after any sequence of add, take, remove and peek the pool holds at
\* most max_size transactions (PoolCap for the pool constructed here) and
\* no two of its entries have the same txid.
C40_PoolBounded ==
    \A n \in Nodes :
        /\ Len(mempool[n]) <= PoolCap
        /\ \A i, j \in 1..Len(mempool[n]) :
               mempool[n][i].txid = mempool[n][j].txid => i = j

\* The pool is full after takes and removes have made room in between, and
\* an add of a txid not in the pool has been refused.
C40_Witness ==
    /\ call.op = "add" /\ ~call.ret
    /\ call.arg.txid \notin pool_txids(call.before)
    /\ mempool[1] = call.before
    /\ Len(mempool[1]) = PoolCap
    /\ mempool[1][1] # T1

====
